---- MODULE Spec2Model ----
(***************************************************************************)
(* Toolchain fetcher of the OpenBlock registry CLI                         *)
(* (lib/deps/registry-fetcher.js): fetchAllToolchains, fetchToolchain,     *)
(* downloadAndExtract, verifyChecksum, over a model of the project's       *)
(* .openblock/toolchains and .openblock/downloads directories; the         *)
(* packages index with its in-memory cache (lib/deps/packages-index.js);   *)
(* the dependency resolution of the dev command                            *)
(* (lib/deps/dependency-resolver.js, commands/dev.js); the merge requests  *)
(* of lib/builder/resource-register.js; the progress callback of a         *)
(* streaming download; and two invocations extracting the same toolchain.  *)
(*                                                                         *)
(* Strings the code inspects character by character (checksums) are        *)
(* sequences of one-character strings; other strings are atomic.  A value  *)
(* that is undefined in JavaScript is "" for atomic strings and Undefined  *)
(* for character sequences.                                                *)
(***************************************************************************)
EXTENDS Integers, Sequences, FiniteSets, TLC

\* ------------------------------------------------------------------ bounds
MaxNames == 2
BufLen == 2

\* ------------------------------------------------------------- basic values
Names == {"avr", "esp"}

Undefined == <<"undefined">>

Null == [null |-> TRUE]

Truthy(s) == s # Undefined /\ s # <<>>

TOOLCHAINS_DIR == <<".openblock", "toolchains">>

DOWNLOAD_CACHE_DIR == <<".openblock", "downloads">>

\* ------------------------------------------------------------ strings
toLowerCase(s) ==
    [i \in 1..Len(s) |->
        CASE s[i] = "A" -> "a"
          [] s[i] = "B" -> "b"
          [] s[i] = "S" -> "s"
          [] OTHER -> s[i]]

toUpperCase(s) ==
    [i \in 1..Len(s) |->
        CASE s[i] = "a" -> "A"
          [] s[i] = "b" -> "B"
          [] s[i] = "s" -> "S"
          [] OTHER -> s[i]]

includes(s, ch) == \E i \in 1..Len(s) : s[i] = ch

RECURSIVE split(_, _)
\* String.prototype.split on a one-character separator
split(s, ch) ==
    IF ~includes(s, ch)
    THEN <<s>>
    ELSE LET i == CHOOSE k \in 1..Len(s) :
                      s[k] = ch /\ \A j \in 1..(k - 1) : s[j] # ch
         IN <<SubSeq(s, 1, i - 1)>> \o split(SubSeq(s, i + 1, Len(s)), ch)

\* ------------------------------------------------------------ buffers
\* Byte strings of the archives; a byte is 0 or 1.
Buffers == [1..BufLen -> {0, 1}]

\* crypto.createHash('sha256').update(buffer).digest('hex'): a non-empty
\* lower-case hex string; distinct buffers have distinct digests.
sha256Hex(buffer) ==
    <<"3">> \o [i \in 1..Len(buffer) |-> IF buffer[i] = 0 THEN "a" ELSE "b"]

\* variant: compares without lower-casing
verifyChecksumNoCase(buffer, expectedHash) ==
    IF ~Truthy(expectedHash) THEN TRUE
    ELSE sha256Hex(buffer) = expectedHash

\* variant: accepts anything
verifyChecksumAlways(buffer, expectedHash) == TRUE

verifyChecksum(buffer, expectedHash) ==
    IF ~Truthy(expectedHash) THEN TRUE
    ELSE toLowerCase(sha256Hex(buffer)) = toLowerCase(expectedHash)

\* ------------------------------------------------------------ archives
\* What adm-zip makes of a byte string, decided by its first two bytes:
\*   0,0  not a zip at all: the AdmZip constructor throws
\*   0,1  a zip whose second entry is corrupt: extractAllTo throws there
\*   1,0  a valid zip with entries a1, a2
\*   1,1  a valid zip with entries b1, b2
zipOpens(buffer) == ~(buffer[1] = 0 /\ buffer[2] = 0)

zipEntries(buffer) ==
    IF buffer[1] = 1 /\ buffer[2] = 1 THEN <<"b1", "b2">> ELSE <<"a1", "a2">>

zipEntryCorrupt(buffer, i) == buffer[1] = 0 /\ buffer[2] = 1 /\ i = 2

NewFiles(buffer) == {zipEntries(buffer)[i] : i \in 1..Len(zipEntries(buffer))}

OldFiles == {"old1", "old2"}

StaleFiles == {"a1"}

\* ------------------------------------------------------------ host
platform == "linux"

arch == "x64"

getHostString == <<platform, arch>>

\* ------------------------------------------------------------ index data
NoList == [defined |-> FALSE, list |-> <<>>]

NoMap == [defined |-> FALSE, map |-> <<>>]

List(l) == [defined |-> TRUE, list |-> l]

Map(m) == [defined |-> TRUE, map |-> m]

\* The digest the registry publishes is that of the archive 1,0,...
ExpectedBuffer == [i \in 1..BufLen |-> IF i = 1 THEN 1 ELSE 0]

MetaChecksums ==
    LET h == sha256Hex(ExpectedBuffer)
    IN {Undefined, h, toUpperCase(h), <<"S", ":">> \o h, <<"S", ":">> \o toUpperCase(h)}

ArchiveFileNames == {"avr.zip", ""}

SystemEntry(host, c, af) ==
    [host |-> host, url |-> "url-systems", checksum |-> c, archiveFileName |-> af]

PlatformEntry(c) ==
    [downloadUrl |-> "", url |-> "url-platforms", checksum |-> Undefined,
     sha256 |-> c, archiveFileName |-> ""]

VersionEntry(v, sys, plat, url, c, af) ==
    [version |-> v, systems |-> sys, platforms |-> plat, url |-> url,
     checksum |-> c, archiveFileName |-> af]

ToolchainInfo(id, v, vers, sys, plat, url, c, af) ==
    [id |-> id, name |-> "", version |-> v, versions |-> vers, systems |-> sys,
     platforms |-> plat, url |-> url, checksum |-> c, archiveFileName |-> af]

OtherHost == <<"darwin", "arm64">>

\* The toolchain entries a packages index may hold for an identifier.
ToolchainInfos(id) ==
    \* single-version form, systems entry for this host
    {ToolchainInfo(id, "7.3.0", NoList,
                   List(<<SystemEntry(OtherHost, Undefined, ""),
                          SystemEntry(getHostString, c, af)>>),
                   NoMap, "", Undefined, "") :
        c \in MetaChecksums, af \in ArchiveFileNames}
    \cup
    \* versions-list form, direct url
    {ToolchainInfo(id, "", List(<<VersionEntry("7.3.0", NoList, NoMap, "url-direct", c, ""),
                                  VersionEntry("5.4.0", NoList, NoMap, "url-old", c, "")>>),
                   NoList, NoMap, "", Undefined, "") :
        c \in MetaChecksums}
    \cup
    \* versions-list form, platforms map, systems without this host
    {ToolchainInfo(id, "", List(<<VersionEntry("7.3.0",
                                      List(<<SystemEntry(OtherHost, Undefined, "")>>),
                                      Map([p \in {platform} |-> PlatformEntry(Undefined)]),
                                      "", Undefined, "")>>),
                   NoList, NoMap, "", Undefined, "")}
    \cup
    \* single-version form, platforms map only
    {ToolchainInfo(id, "7.3.0", NoList, NoList,
                   Map([p \in {platform} |-> PlatformEntry(Undefined)]),
                   "", Undefined, "")}
    \cup
    \* versions-list form with all three shapes; with platforms map and url
    {ToolchainInfo(id, "", List(<<VersionEntry("7.3.0",
                                      List(<<SystemEntry(getHostString, Undefined, "")>>),
                                      Map([p \in {platform} |-> PlatformEntry(Undefined)]),
                                      "url-direct", Undefined, "")>>),
                   NoList, NoMap, "", Undefined, ""),
     ToolchainInfo(id, "", List(<<VersionEntry("7.3.0", NoList,
                                      Map([p \in {platform} |-> PlatformEntry(Undefined)]),
                                      "url-direct", Undefined, "")>>),
                   NoList, NoMap, "", Undefined, "")}
    \cup
    \* single-version form, no artifact for this host
    {ToolchainInfo(id, "7.3.0", NoList, List(<<SystemEntry(OtherHost, Undefined, "")>>),
                   NoMap, "", Undefined, "")}
    \cup
    \* no version at all; a version next to an empty versions list
    {ToolchainInfo(id, "", NoList, NoList, NoMap, "", Undefined, ""),
     ToolchainInfo(id, "7.3.0", List(<<>>), NoList, NoMap, "url-direct", Undefined, "")}

EmptyPackages == [toolchains |-> <<>>]

\* What getPackagesIndex() may return: the empty default or an index with
\* one toolchain entry.
PackagesChoices ==
    {EmptyPackages} \cup
    {[toolchains |-> <<info>>] : info \in UNION {ToolchainInfos(id) : id \in Names}}

\* ------------------------------------------------------------ lookups
findToolchain(packages, name) ==
    LET hits == {i \in 1..Len(packages.toolchains) :
                    packages.toolchains[i].id = name \/ packages.toolchains[i].name = name}
    IN IF hits = {} THEN Null
       ELSE packages.toolchains[CHOOSE i \in hits : \A j \in hits : i <= j]

findMatchingSystem(systems) ==
    IF ~systems.defined THEN Null
    ELSE LET hits == {i \in 1..Len(systems.list) : systems.list[i].host = getHostString}
         IN IF hits = {} THEN Null
            ELSE systems.list[CHOOSE i \in hits : \A j \in hits : i <= j]

getLatestVersion(toolchainInfo) ==
    IF toolchainInfo = Null THEN Null
    ELSE IF toolchainInfo.version # "" /\ ~toolchainInfo.versions.defined
    THEN VersionEntry(toolchainInfo.version, toolchainInfo.systems, NoMap,
                      toolchainInfo.url, toolchainInfo.checksum,
                      toolchainInfo.archiveFileName)
    ELSE IF toolchainInfo.versions.defined /\ Len(toolchainInfo.versions.list) > 0
    THEN toolchainInfo.versions.list[1]
    ELSE Null

NoDownload == [downloadUrl |-> "", sha256 |-> Undefined, archiveFileName |-> ""]

\* fetchToolchain, "Get platform-specific download info"
resolveDownload(versionEntry) ==
    LET systemEntry == findMatchingSystem(versionEntry.systems)
        s1 == IF versionEntry.systems.defined /\ systemEntry # Null
              THEN [downloadUrl |-> systemEntry.url, sha256 |-> systemEntry.checksum,
                    archiveFileName |-> systemEntry.archiveFileName]
              ELSE NoDownload
        hasPlatform == versionEntry.platforms.defined
                       /\ platform \in DOMAIN versionEntry.platforms.map
        platformEntry == versionEntry.platforms.map[platform]
        s2 == IF s1.downloadUrl = "" /\ hasPlatform
              THEN [downloadUrl |-> IF platformEntry.downloadUrl # ""
                                    THEN platformEntry.downloadUrl ELSE platformEntry.url,
                    sha256 |-> IF Truthy(platformEntry.checksum)
                               THEN platformEntry.checksum ELSE platformEntry.sha256,
                    archiveFileName |-> platformEntry.archiveFileName]
              ELSE s1
    IN IF s2.downloadUrl = "" /\ versionEntry.url # ""
       THEN [downloadUrl |-> versionEntry.url, sha256 |-> versionEntry.checksum,
             archiveFileName |-> versionEntry.archiveFileName]
       ELSE s2

\* variant: the checksum is passed on as published
parseChecksumKeep(sha256) == sha256

\* fetchToolchain, "Parse checksum - handle SHA-256:hash format"
parseChecksum(sha256) ==
    IF Truthy(sha256) /\ includes(sha256, ":") THEN split(sha256, ":")[2] ELSE sha256

\* ------------------------------------------------------------ file system
destDir(name) == TOOLCHAINS_DIR \o <<name>>

\* variant: extracts straight into the destination
tempExtractDirInPlace(dir) == dir

tempExtractDir(dir) == dir \o <<".extracting">>

DirPaths == {destDir(n) : n \in Names} \cup {destDir(n) \o <<".extracting">> : n \in Names}

NoDir == [exists |-> FALSE, files |-> {}]

Dir(files) == [exists |-> TRUE, files |-> files]

NoFile == [exists |-> FALSE, bytes |-> <<>>]

File(bytes) == [exists |-> TRUE, bytes |-> bytes]

TEMP_DOWNLOAD == "_temp_download.zip"

CacheFiles == (ArchiveFileNames \ {""}) \cup {TEMP_DOWNLOAD}

archiveFile(archiveFileName) ==
    IF archiveFileName # "" THEN archiveFileName ELSE TEMP_DOWNLOAD

\* variant: removes nothing
fsRemoveKeep(d, p) == d

fsRemove(d, p) == [d EXCEPT ![p] = NoDir]

fsEnsureDir(d, p) == IF d[p].exists THEN d ELSE [d EXCEPT ![p] = Dir({})]

\* fs-extra move: rename of a sibling directory
fsMove(d, src, dst) == [d EXCEPT ![dst] = d[src], ![src] = NoDir]

\* ------------------------------------------------------------ results
Result(success, name, version, skipped, extractPath, error) ==
    [success |-> success, name |-> name, version |-> version, skipped |-> skipped,
     extractPath |-> extractPath, error |-> error]

\* variant: never takes the local copy
localCopyPresentNever(dir) == FALSE

\* fetchToolchain: the extract directory exists and readdir lists something
localCopyPresent(dir) == dir.exists /\ dir.files # {}

\* variant: a checksum error escapes the catch
fetchToolchainCatchLeaky(name, error) ==
    [caught |-> error # "checksum",
     result |-> Result(FALSE, name, "latest", FALSE, <<>>, error)]

\* variant: a failed result names the extract directory
fetchToolchainCatchWithPath(name, error) ==
    [caught |-> TRUE,
     result |-> Result(FALSE, name, "latest", FALSE, destDir(name), error)]

\* fetchToolchain: catch (error) { return {success: false, ...} }
fetchToolchainCatch(name, error) ==
    [caught |-> TRUE,
     result |-> Result(FALSE, name, "latest", FALSE, <<>>, error)]

\* variant: unshift instead of push
pushResultFront(res, r) == <<r>> \o res

pushResult(res, r) == Append(res, r)

\* variant: some instead of every
allSuccessSome(res) == \E i \in 1..Len(res) : res[i].success

allSuccess(res) == \A i \in 1..Len(res) : res[i].success

\* variant: any cached file suppresses the download
needDownloadUnlessCached(sha256v, file) == ~file.exists

\* downloadAndExtract: needDownload after the check of the cached archive
needDownload(sha256v, file) ==
    ~(Truthy(sha256v) /\ file.exists /\ verifyChecksum(file.bytes, sha256v))

\* ------------------------------------------------------------ state
VARIABLES
    toolchains,      \* argument of fetchAllToolchains: [kind, value]
    names,           \* fetchAllToolchains: names
    idx,             \* position of the for loop in names
    results,         \* fetchAllToolchains: results
    ret,             \* settlement of the promise fetchAllToolchains returns
    pc,              \* position of the running call
    dirs,            \* directories under .openblock/toolchains
    cache,           \* archive files under .openblock/downloads
    version,         \* fetchToolchain locals
    downloadUrl,
    sha256,
    archiveFileName,
    body,            \* downloadAndExtract: bytes the response will deliver
    chunks,          \* downloadAndExtract: chunks collected so far
    extracted,       \* number of archive entries extractAllTo has written
    thrown,          \* error on its way through the catch of downloadAndExtract
    visited,         \* positions the current fetchToolchain call went through
    priorDirs,       \* dirs when the current fetchToolchain call started
    priorCache,      \* cache when the current fetchToolchain call started
    initDirs,        \* dirs when the invocation started
    tcInfo,          \* fetchToolchain: toolchainInfo, the entry findToolchain returned
    scenario,        \* the environment of this run: "any", "batch", "verify", "deps"
    pkg,             \* the project's package.json
    deps,            \* resolveDependencies: deps, what parseDependencies returned
    rd,              \* the running resolveDependencies call and its settlement
    cachedPackages,  \* packages-index.js: cachedPackages
    cacheTimestamp,  \* packages-index.js: cacheTimestamp
    now,             \* Date.now()
    gp,              \* the latest getPackagesIndex call
    calls,           \* number of getPackagesIndex calls made
    ticks,           \* number of advances of the clock
    populatedAt,     \* when a call last filled the cache; -1 if never, -2 if cleared since
    vc,              \* a direct use of the exported verifyChecksum
    mg,              \* a registerToolchainMerge call (resource-register.js)
    dp,              \* the streaming loop of one download and its progress callback
    procs,           \* two CLI invocations extracting the same toolchain
    events           \* what onProgress and onStatus were called with, in order

locals == <<version, downloadUrl, sha256, archiveFileName, body, chunks, extracted, thrown>>

batch == <<toolchains, names, idx, results, ret, events>>

history == <<visited, priorDirs, priorCache, initDirs>>

indexVars == <<cachedPackages, cacheTimestamp, now, gp, calls, ticks, populatedAt>>

side == <<mg, dp, procs>>

world == <<scenario, pkg, deps, rd, indexVars, side>>

env == <<world, vc, tcInfo>>

vars == <<batch, pc, dirs, cache, locals, history, env>>

RECURSIVE SeqsUpTo(_, _)
SeqsUpTo(S, n) ==
    IF n = 0 THEN {<<>>}
    ELSE LET shorter == SeqsUpTo(S, n - 1)
         IN shorter \cup {Append(q, x) : q \in shorter, x \in S}

\* What a caller may pass as the toolchains argument.
Inputs(maxLen) ==
    {[kind |-> "string", value |-> <<n>>] : n \in Names}
    \cup {[kind |-> "array", value |-> q] : q \in SeqsUpTo(Names, maxLen)}
    \cup {[kind |-> "object", value |-> <<>>]}

\* What may lie on disk when the CLI starts: no directory, an empty one, or
\* an earlier complete extraction; possibly a staging directory an
\* interrupted run left; possibly a cached archive.
InitDirStates == {NoDir, Dir({}), Dir(OldFiles)}

InitStageStates == {NoDir, Dir(StaleFiles)}

InitFileStates ==
    {NoFile, File(ExpectedBuffer), File([i \in 1..BufLen |-> 0])}

Requested(input) == {input.value[i] : i \in 1..Len(input.value)}

\* Any disk state for the requested names; nothing for the others.
AnyDisk(input) ==
    /\ dirs \in {d \in [DirPaths -> InitDirStates \cup InitStageStates] :
                   \A n \in Names :
                      IF n \in Requested(input)
                      THEN /\ d[destDir(n)] \in InitDirStates
                           /\ d[destDir(n) \o <<".extracting">>] \in InitStageStates
                      ELSE /\ d[destDir(n)] = NoDir
                           /\ d[destDir(n) \o <<".extracting">>] = NoDir}
    /\ cache \in {c \in [CacheFiles -> InitFileStates] :
                    /\ c[TEMP_DOWNLOAD] = NoFile
                    /\ Requested(input) = {} => \A f \in CacheFiles : c[f] = NoFile}

\* A fresh project, or one where "avr" was extracted by an earlier run.
BatchDisk ==
    /\ dirs \in {[p \in DirPaths |-> NoDir],
                 [p \in DirPaths |-> IF p = destDir("avr") THEN Dir(OldFiles) ELSE NoDir]}
    /\ cache = [f \in CacheFiles |-> NoFile]

\* An index in which "avr" has an artifact for this host with a checksum, and
\* "esp" has an artifact without checksum, no version, or no artifact for
\* this host.
BatchIndexAnswers ==
    {[toolchains |-> <<ToolchainInfo("avr", "7.3.0", NoList,
                          List(<<SystemEntry(OtherHost, Undefined, ""),
                                 SystemEntry(getHostString,
                                             <<"S", ":">> \o sha256Hex(ExpectedBuffer),
                                             "avr.zip")>>),
                          NoMap, "", Undefined, "")>>],
     [toolchains |-> <<ToolchainInfo("esp", "", NoList, NoList, NoMap, "", Undefined, "")>>],
     [toolchains |-> <<ToolchainInfo("esp", "", List(<<VersionEntry("7.3.0", NoList, NoMap,
                                                          "url-direct", Undefined, "")>>),
                          NoList, NoMap, "", Undefined, "")>>],
     [toolchains |-> <<ToolchainInfo("esp", "7.3.0", NoList,
                          List(<<SystemEntry(OtherHost, Undefined, "")>>),
                          NoMap, "", Undefined, "")>>]}

\* The server delivers the published archive, a damaged one, or no zip.
BatchServerBodies ==
    {ExpectedBuffer, [i \in 1..BufLen |-> IF i = 2 THEN 1 ELSE 0], [i \in 1..BufLen |-> 0]}

\* What getPackagesIndex may return in this run.
indexAnswers == IF scenario = "batch" THEN BatchIndexAnswers ELSE PackagesChoices

\* What the download server may deliver in this run.
serverBodies == IF scenario = "batch" THEN BatchServerBodies ELSE Buffers

name == names[idx]

InitCommon ==
    /\ names = <<>>
    /\ idx = 1
    /\ results = <<>>
    /\ events = <<>>
    /\ ret = [state |-> "pending", success |-> FALSE]
    /\ pc = "start"
    /\ version = ""
    /\ downloadUrl = ""
    /\ sha256 = Undefined
    /\ archiveFileName = ""
    /\ body = <<>>
    /\ chunks = <<>>
    /\ extracted = 0
    /\ thrown = ""
    /\ visited = {}
    /\ priorDirs = dirs
    /\ priorCache = cache
    /\ initDirs = dirs
    /\ tcInfo = Null

NoVerify ==
    [buffer |-> <<>>, given |-> Undefined, expected |-> Undefined,
     stripped |-> FALSE, called |-> FALSE, result |-> FALSE]

\* resolveDependencies has not been called
NoResolve ==
    [pc |-> "idle", localValid |-> FALSE, outcome |-> "pending", success |-> FALSE,
     toolchainResults |-> <<>>, error |-> ""]

PACKAGES_CACHE_TTL == 3600000

NoCall ==
    [pc |-> "idle", options |-> [caller |-> "", registryUrl |-> "", forceRefresh |-> FALSE],
     contacted |-> {}, failed |-> {}, outcome |-> "none", value |-> Null,
     defaulted |-> FALSE, expectCached |-> FALSE, refreshCase |-> FALSE,
     cachedAtCall |-> Null,
     cacheAfter |-> Null]

\* packages-index.js as loaded: let cachedPackages = null; let cacheTimestamp = 0
NoIndexCalls ==
    /\ cachedPackages = Null
    /\ cacheTimestamp = 0
    /\ now = 2 * PACKAGES_CACHE_TTL
    /\ gp = NoCall
    /\ calls = 0
    /\ ticks = 0
    /\ populatedAt = -1

\* no registerToolchainMerge call is under way
NoMerge ==
    [pc |-> "idle", input |-> <<>>, i |-> 1, requests |-> <<>>, answers |-> <<>>,
     errors |-> <<>>, totalMerged |-> 0, ret |-> Null]

\* no download is streaming; dev.js: let lastTcPercent = -1
NoStream ==
    [pc |-> "idle", stream |-> <<>>, totalSize |-> 0, n |-> 0, downloadedSize |-> 0,
     invocations |-> <<>>, lastTcPercent |-> -1, shown |-> <<>>]

Procs == {1, 2}

\* an invocation that has not reached the extraction
NoProc == [pc |-> "idle", extracted |-> 0, thrown |-> "", outcome |-> ""]

NoSide == mg = NoMerge /\ dp = NoStream /\ procs = [p \in Procs |-> NoProc]

\* fetchAllToolchains called on its own, without a project
NoProject ==
    /\ pkg = [state |-> "absent", libraries |-> <<>>, toolchains |-> <<>>, present |-> {}]
    /\ deps = Null
    /\ rd = NoResolve

\* A call for at most one name, against any index, server and disk.
InitSingle ==
    /\ toolchains \in Inputs(1)
    /\ AnyDisk(toolchains)
    /\ scenario = "any"
    /\ vc = NoVerify
    /\ NoProject
    /\ NoIndexCalls
    /\ NoSide
    /\ InitCommon

\* A call for a list of names.
InitBatch ==
    /\ toolchains \in Inputs(MaxNames)
    /\ BatchDisk
    /\ scenario = "batch"
    /\ vc = NoVerify
    /\ NoProject
    /\ NoIndexCalls
    /\ NoSide
    /\ InitCommon

Init == InitSingle \/ InitBatch

\* ------------------------------------------------------------ fetchAllToolchains
\* a call of options.onProgress(name, status, ...) or, while name is being
\* fetched, of options.onStatus(status)
Event(n, status) == [name |-> n, status |-> status]

\* Normalize input to array of names, or throw
Normalize ==
    /\ pc = "start"
    /\ IF toolchains.kind \in {"string", "array"}
       THEN /\ names' = toolchains.value
            /\ pc' = "loop"
            /\ ret' = ret
       ELSE /\ ret' = [state |-> "rejected", success |-> FALSE]
            /\ pc' = "done"
            /\ names' = names
    /\ UNCHANGED <<toolchains, idx, results, events, dirs, cache, locals, history, env>>

\* for (const name of names): onProgress(name, 'fetching'); fetchToolchain(...)
LoopNext ==
    /\ pc = "loop"
    /\ idx <= Len(names)
    /\ pc' = "checkLocal"
    /\ version' = ""
    /\ downloadUrl' = ""
    /\ sha256' = Undefined
    /\ archiveFileName' = ""
    /\ body' = <<>>
    /\ chunks' = <<>>
    /\ extracted' = 0
    /\ thrown' = ""
    /\ visited' = {}
    /\ priorDirs' = dirs
    /\ priorCache' = cache
    /\ tcInfo' = Null
    /\ events' = Append(events, Event(name, "fetching"))
    /\ UNCHANGED <<toolchains, names, idx, results, ret, dirs, cache, initDirs, world, vc>>

\* return {success: allSuccess, results}
LoopEnd ==
    /\ pc = "loop"
    /\ idx > Len(names)
    /\ ret' = [state |-> "resolved", success |-> allSuccess(results)]
    /\ pc' = "done"
    /\ UNCHANGED <<toolchains, names, idx, results, events, dirs, cache, locals, history, env>>

\* variant: the loop fetches the same name again
nextIterationSame(i) == i

\* for (const name of names): the position after position i
nextIteration(i) == i + 1

\* variant: every name is reported done
terminalEventDone(r) == "done"

\* onProgress(name, result.success ? 'done' : 'error', result)
terminalEvent(r) == IF r.success THEN "done" ELSE "error"

\* fetchToolchain returns r after the callbacks in log were made; the loop
\* pushes r and reports done/error
ReturnAfter(log, r) ==
    /\ results' = pushResult(results, r)
    /\ idx' = nextIteration(idx)
    /\ pc' = "loop"
    /\ events' = Append(log, Event(name, terminalEvent(r)))
    /\ UNCHANGED <<toolchains, names, ret>>

Return(r) == ReturnAfter(events, r)

\* an error thrown inside fetchToolchain's try block, after the callbacks in log
ThrowAfter(log, error) ==
    LET o == fetchToolchainCatch(name, error)
    IN IF o.caught
       THEN ReturnAfter(log, o.result)
       ELSE /\ ret' = [state |-> "rejected", success |-> FALSE]
            /\ pc' = "done"
            /\ events' = log
            /\ UNCHANGED <<toolchains, names, idx, results>>

Throw(error) == ThrowAfter(events, error)

\* ------------------------------------------------------------ fetchToolchain
\* local extract directory, then options.hasToolchain
CheckLocal ==
    /\ pc = "checkLocal"
    /\ visited' = visited \cup {"checkLocal"}
    /\ IF localCopyPresent(dirs[destDir(name)])
       THEN Return(Result(TRUE, name, "latest", TRUE, destDir(name), ""))
       ELSE \E has \in BOOLEAN :
               IF has
               THEN Return(Result(TRUE, name, "latest", TRUE, <<>>, ""))
               ELSE pc' = "index" /\ UNCHANGED batch
    /\ UNCHANGED <<dirs, cache, locals, priorDirs, priorCache, initDirs, env>>

\* getPackagesIndex, findToolchain, getLatestVersion, download info, checksum
ResolveMetadata ==
    /\ pc = "index"
    /\ visited' = visited \cup {"index"}
    /\ \E packages \in indexAnswers :
          LET toolchainInfo == findToolchain(packages, name)
              versionEntry == getLatestVersion(toolchainInfo)
              dl == resolveDownload(versionEntry)
          IN /\ tcInfo' = toolchainInfo
             /\ IF toolchainInfo = Null
                THEN /\ Return(Result(FALSE, name, "latest", FALSE, <<>>, "not found"))
                     /\ UNCHANGED <<version, downloadUrl, sha256, archiveFileName>>
                ELSE IF versionEntry = Null
                THEN /\ Return(Result(FALSE, name, "latest", FALSE, <<>>, "no version"))
                     /\ UNCHANGED <<version, downloadUrl, sha256, archiveFileName>>
                ELSE IF dl.downloadUrl = ""
                THEN /\ Return(Result(FALSE, name, versionEntry.version, FALSE, <<>>,
                                      "no download URL"))
                     /\ UNCHANGED <<version, downloadUrl, sha256, archiveFileName>>
                ELSE /\ version' = versionEntry.version
                     /\ downloadUrl' = dl.downloadUrl
                     /\ sha256' = parseChecksum(dl.sha256)
                     /\ archiveFileName' = dl.archiveFileName
                     /\ pc' = "cacheCheck"
                     /\ UNCHANGED batch
    /\ UNCHANGED <<dirs, cache, body, chunks, extracted, thrown,
                   priorDirs, priorCache, initDirs, world, vc>>

\* ------------------------------------------------------------ downloadAndExtract
\* ensureDir(cacheDir); check the cached archive against the checksum
CacheCheck ==
    /\ pc = "cacheCheck"
    /\ visited' = visited \cup {"cacheCheck"}
    /\ pc' = IF needDownload(sha256, cache[archiveFile(archiveFileName)])
             THEN "fetch" ELSE "open"
    /\ events' = IF Truthy(sha256) /\ cache[archiveFile(archiveFileName)].exists
                 THEN Append(events, Event(name, "verifying"))
                 ELSE events
    /\ UNCHANGED <<toolchains, names, idx, results, ret, dirs, cache, locals,
                   priorDirs, priorCache, initDirs, env>>

\* fetch(url): connection error, status not ok, or a response whose body
\* will deliver some byte string
HttpFetch ==
    /\ pc = "fetch"
    /\ visited' = visited \cup {"fetch"}
    /\ \/ /\ \E error \in {"network", "http"} : Throw(error)
          /\ UNCHANGED body
       \/ /\ \E b \in serverBodies : body' = b
          /\ pc' = "body"
          /\ events' = Append(events, Event(name, "downloading"))
          /\ UNCHANGED <<toolchains, names, idx, results, ret>>
    /\ UNCHANGED <<dirs, cache, version, downloadUrl, sha256, archiveFileName,
                   chunks, extracted, thrown, priorDirs, priorCache, initDirs, env>>

\* for await (const chunk of response.body): one chunk, or the stream breaks
\* (the progress callback made per chunk is followed in SpecProgress)
Chunk ==
    /\ pc = "body"
    /\ Len(chunks) < Len(body)
    /\ \/ /\ chunks' = Append(chunks, body[Len(chunks) + 1])
          /\ UNCHANGED <<batch, pc>>
       \/ /\ Throw("network")
          /\ UNCHANGED chunks
    /\ UNCHANGED <<dirs, cache, version, downloadUrl, sha256, archiveFileName,
                   body, extracted, thrown, history, env>>

\* Buffer.concat, verify checksum, write archive to the cache directory
BodyEnd ==
    /\ pc = "body"
    /\ Len(chunks) = Len(body)
    /\ visited' = visited \cup {"bodyEnd"}
    /\ LET log == IF Truthy(sha256)
                  THEN Append(events, Event(name, "verifying"))
                  ELSE events
       IN IF Truthy(sha256) /\ ~verifyChecksum(chunks, sha256)
          THEN /\ ThrowAfter(log, "checksum")
               /\ UNCHANGED cache
          ELSE /\ cache' = [cache EXCEPT ![archiveFile(archiveFileName)] = File(chunks)]
               /\ pc' = "open"
               /\ events' = log
               /\ UNCHANGED <<toolchains, names, idx, results, ret>>
    /\ UNCHANGED <<dirs, locals, priorDirs, priorCache, initDirs, env>>

\* onStatus('extracting'); new AdmZip(archivePath), before the try block
OpenArchive ==
    /\ pc = "open"
    /\ visited' = visited \cup {"open"}
    /\ LET log == Append(events, Event(name, "extracting"))
       IN IF zipOpens(cache[archiveFile(archiveFileName)].bytes)
          THEN /\ pc' = "rmStage"
               /\ events' = log
               /\ UNCHANGED <<toolchains, names, idx, results, ret>>
          ELSE ThrowAfter(log, "zip")
    /\ UNCHANGED <<dirs, cache, locals, priorDirs, priorCache, initDirs, env>>

\* try: fs.remove(tempExtractDir)
RemoveStale ==
    /\ pc = "rmStage"
    /\ \/ /\ dirs' = fsRemove(dirs, tempExtractDir(destDir(name)))
          /\ pc' = "mkStage"
          /\ UNCHANGED thrown
       \/ /\ thrown' = "io"
          /\ pc' = "catch"
          /\ UNCHANGED dirs
    /\ UNCHANGED <<batch, cache, version, downloadUrl, sha256, archiveFileName,
                   body, chunks, extracted, history, env>>

\* fs.ensureDir(tempExtractDir)
MakeStaging ==
    /\ pc = "mkStage"
    /\ \/ /\ dirs' = fsEnsureDir(dirs, tempExtractDir(destDir(name)))
          /\ pc' = "extract"
          /\ UNCHANGED thrown
       \/ /\ thrown' = "io"
          /\ pc' = "catch"
          /\ UNCHANGED dirs
    /\ UNCHANGED <<batch, cache, version, downloadUrl, sha256, archiveFileName,
                   body, chunks, extracted, history, env>>

\* zip.extractAllTo(tempExtractDir, true), one entry at a time
ExtractEntry ==
    /\ pc = "extract"
    /\ visited' = visited \cup {"extract"}
    /\ LET bytes == cache[archiveFile(archiveFileName)].bytes
           entries == zipEntries(bytes)
           i == extracted + 1
           target == tempExtractDir(destDir(name))
       IN IF zipEntryCorrupt(bytes, i)
          THEN /\ thrown' = "zip"
               /\ pc' = "catch"
               /\ UNCHANGED <<dirs, extracted>>
          ELSE \/ /\ dirs' = [dirs EXCEPT ![target] = Dir(@.files \cup {entries[i]})]
                  /\ extracted' = i
                  /\ pc' = IF i = Len(entries) THEN "rmDest" ELSE "extract"
                  /\ UNCHANGED thrown
               \/ /\ thrown' = "io"
                  /\ pc' = "catch"
                  /\ UNCHANGED <<dirs, extracted>>
    /\ UNCHANGED <<batch, cache, version, downloadUrl, sha256, archiveFileName,
                   body, chunks, priorDirs, priorCache, initDirs, env>>

\* fs.remove(destDir): done, or fails having removed none or some of the files
RemoveDest ==
    /\ pc = "rmDest"
    /\ visited' = visited \cup {"rmDest"}
    /\ \/ /\ dirs' = fsRemove(dirs, destDir(name))
          /\ pc' = "move"
          /\ UNCHANGED thrown
       \/ /\ \E left \in SUBSET dirs[destDir(name)].files :
                dirs' = [dirs EXCEPT ![destDir(name)].files = left]
          /\ thrown' = "io"
          /\ pc' = "catch"
    /\ UNCHANGED <<batch, cache, version, downloadUrl, sha256, archiveFileName,
                   body, chunks, extracted, priorDirs, priorCache, initDirs, env>>

\* fs.move(tempExtractDir, destDir), then return the successful result
MoveIntoPlace ==
    /\ pc = "move"
    /\ visited' = visited \cup {"move"}
    /\ \/ /\ ~dirs[destDir(name)].exists
          /\ dirs' = fsMove(dirs, tempExtractDir(destDir(name)), destDir(name))
          /\ Return(Result(TRUE, name, version, FALSE, destDir(name), ""))
          /\ UNCHANGED thrown
       \/ /\ thrown' = "io"
          /\ pc' = "catch"
          /\ UNCHANGED <<batch, dirs>>
    /\ UNCHANGED <<cache, version, downloadUrl, sha256, archiveFileName,
                   body, chunks, extracted, priorDirs, priorCache, initDirs, env>>

\* catch (err): fs.remove(tempExtractDir); throw err
CatchCleanup ==
    /\ pc = "catch"
    /\ visited' = visited \cup {"catch"}
    /\ dirs' = fsRemove(dirs, tempExtractDir(destDir(name)))
    /\ Throw(thrown)
    /\ UNCHANGED <<cache, locals, priorDirs, priorCache, initDirs, env>>

Next ==
    \/ Normalize
    \/ LoopNext
    \/ LoopEnd
    \/ CheckLocal
    \/ ResolveMetadata
    \/ CacheCheck
    \/ HttpFetch
    \/ Chunk
    \/ BodyEnd
    \/ OpenArchive
    \/ RemoveStale
    \/ MakeStaging
    \/ ExtractEntry
    \/ RemoveDest
    \/ MoveIntoPlace
    \/ CatchCleanup

Spec == Init /\ [][Next]_vars

\* ------------------------------------------------------------ verifyChecksum
\* The exported verifyChecksum applied to a buffer and an expected checksum,
\* directly or after fetchToolchain's handling of the ALGO:hex form.
VerifyBuffers == UNION {[1..n -> {0, 1}] : n \in 0..BufLen}

BareForms(buffer) == {sha256Hex(buffer), toUpperCase(sha256Hex(buffer))}

PrefixedForms(buffer) == {<<"S", ":">> \o h : h \in BareForms(buffer)}

\* a prefixed form followed by a further colon and more text
TailedForms(buffer) == {h \o <<":", "x">> : h \in PrefixedForms(buffer)}

VerifyExpected ==
    {Undefined, <<>>}
    \cup UNION {BareForms(b) \cup PrefixedForms(b) \cup TailedForms(b) : b \in VerifyBuffers}

InitVerify ==
    /\ toolchains = [kind |-> "object", value |-> <<>>]
    /\ dirs = [p \in DirPaths |-> NoDir]
    /\ cache = [f \in CacheFiles |-> NoFile]
    /\ scenario = "verify"
    /\ \E b \in VerifyBuffers, e \in VerifyExpected :
          vc = [NoVerify EXCEPT !.buffer = b, !.given = e, !.expected = e]
    /\ NoProject
    /\ NoIndexCalls
    /\ NoSide
    /\ InitCommon

\* fetchToolchain: sha256 = sha256.split(':')[1]
StripPrefix ==
    /\ ~vc.called
    /\ ~vc.stripped
    /\ vc' = [vc EXCEPT !.expected = parseChecksum(vc.given), !.stripped = TRUE]
    /\ UNCHANGED <<batch, pc, dirs, cache, locals, history, world, tcInfo>>

VerifyCall ==
    /\ ~vc.called
    /\ vc' = [vc EXCEPT !.called = TRUE, !.result = verifyChecksum(vc.buffer, vc.expected)]
    /\ UNCHANGED <<batch, pc, dirs, cache, locals, history, world, tcInfo>>

NextVerify == StripPrefix \/ VerifyCall

SpecVerify == InitVerify /\ [][NextVerify]_vars

\* ------------------------------------------------------------ dependency-resolver.js
LibraryNames == {"servo"}

Latest == <<"l", "a", "t", "e", "s", "t">>

\* a JSON value that is no string: a number, a boolean, null, an object
NotAString == <<"#number">>

LocalPaths == {<<".", "/", "x">>, <<".", ".", "/", "x">>}

\* What a package.json may give as the value of a dependency.
DependencyValues == LocalPaths \cup {Latest, <<"^", "1">>, <<".", "x">>, NotAString}

startsWith(s, prefix) ==
    Len(s) >= Len(prefix) /\ SubSeq(s, 1, Len(prefix)) = prefix

\* variant: only ./ counts as a local path
isLocalPathDotSlash(identifier) == startsWith(identifier, <<".", "/">>)

isLocalPath(identifier) ==
    startsWith(identifier, <<".", "/">>) \/ startsWith(identifier, <<".", ".", "/">>)

\* Object.entries of a dependencies object: entries with distinct names
Entries(ns) ==
    {q \in SeqsUpTo([name : ns, value : DependencyValues], Cardinality(ns)) :
        \A i, j \in 1..Len(q) : q[i].name = q[j].name => i = j}

\* the string values isLocalPath accepts
LocalValues == {v \in DependencyValues \ {NotAString} : isLocalPath(v)}

\* the string values that reach the `else if` and equal 'latest'
RemoteValues == {v \in DependencyValues \ {NotAString} : ~isLocalPath(v) /\ v = Latest}

EntryNames(entries, accepted) ==
    {entries[i].name : i \in {k \in 1..Len(entries) : entries[k].value \in accepted}}

ValueOf(entries, n) ==
    entries[CHOOSE i \in 1..Len(entries) : entries[i].name = n].value

\* the object built by result[name] = identifier for the accepted entries
Collect(entries, accepted) ==
    [n \in EntryNames(entries, accepted) |-> ValueOf(entries, n)]

\* the warnings pushed for the entries that are not accepted
WarningsOf(entries, kind, accepted) ==
    LET bad == SelectSeq(entries, LAMBDA e : e.value \notin accepted)
    IN [i \in 1..Len(bad) |-> [kind |-> kind, name |-> bad[i].name]]

ParseThrew(message) ==
    [threw |-> TRUE, message |-> message, libraries |-> <<>>,
     toolchains |-> [local |-> <<>>, remote |-> <<>>], warnings |-> <<>>]

parseDependencies(packageJson) ==
    IF packageJson.state = "absent" THEN ParseThrew("package.json not found")
    ELSE IF packageJson.state = "unparsable" THEN ParseThrew("SyntaxError")
    ELSE IF \E i \in 1..Len(packageJson.libraries) :
               packageJson.libraries[i].value = NotAString
    THEN ParseThrew("TypeError")
    ELSE IF \E i \in 1..Len(packageJson.toolchains) :
               packageJson.toolchains[i].value = NotAString
    THEN ParseThrew("TypeError")
    ELSE [threw |-> FALSE, message |-> "",
          libraries |-> Collect(packageJson.libraries, LocalValues),
          toolchains |->
             [local |-> Collect(packageJson.toolchains, LocalValues),
              remote |-> Collect(packageJson.toolchains, RemoteValues)],
          warnings |->
             WarningsOf(packageJson.libraries, "library", LocalValues)
             \o WarningsOf(packageJson.toolchains, "toolchain",
                           LocalValues \cup RemoteValues)]

\* fs.existsSync for every local library and local toolchain path
validateLocalDependencies(present, d) ==
    /\ \A n \in DOMAIN d.libraries : d.libraries[n] \in present
    /\ \A n \in DOMAIN d.toolchains.local : d.toolchains.local[n] \in present

\* ------------------------------------------------------------ dev.js
\* A project directory: no package.json, one that JSON.parse rejects, or one
\* with openblock.dependencies; and the local paths that exist on disk.
ProjectChoices ==
    {[state |-> st, libraries |-> <<>>, toolchains |-> <<>>, present |-> {}] :
        st \in {"absent", "unparsable"}}
    \cup {[state |-> "parsed", libraries |-> l, toolchains |-> t, present |-> p] :
            l \in Entries(LibraryNames), t \in Entries(Names), p \in SUBSET LocalPaths}

\* fetchAllToolchains has not been called
IdleFetcher ==
    /\ vc = NoVerify
    /\ toolchains = [kind |-> "object", value |-> <<>>]
    /\ dirs = [p \in DirPaths |-> NoDir]
    /\ cache = [f \in CacheFiles |-> NoFile]
    /\ names = <<>>
    /\ idx = 1
    /\ results = <<>>
    /\ events = <<>>
    /\ ret = [state |-> "pending", success |-> FALSE]
    /\ pc = "idle"
    /\ version = ""
    /\ downloadUrl = ""
    /\ sha256 = Undefined
    /\ archiveFileName = ""
    /\ body = <<>>
    /\ chunks = <<>>
    /\ extracted = 0
    /\ thrown = ""
    /\ visited = {}
    /\ priorDirs = dirs
    /\ priorCache = cache
    /\ initDirs = dirs
    /\ tcInfo = Null

InitDeps ==
    /\ pkg \in ProjectChoices
    /\ deps = Null
    /\ rd = [NoResolve EXCEPT !.pc = "start"]
    /\ scenario = "deps"
    /\ NoIndexCalls
    /\ NoSide
    /\ IdleFetcher

\* resolveDependencies up to its first await: parseDependencies and its
\* catch, validateLocalDependencies, then fetchAllToolchains is called with
\* deps.toolchains.remote
ResolveDependencies ==
    /\ rd.pc = "start"
    /\ LET d == parseDependencies(pkg)
       IN /\ deps' = d
          /\ IF d.threw
             THEN /\ rd' = IF d.message = "package.json not found"
                           THEN [rd EXCEPT !.pc = "done", !.outcome = "thrown",
                                           !.error = d.message]
                           ELSE [rd EXCEPT !.pc = "done", !.outcome = "returned",
                                           !.success = TRUE]
                  /\ UNCHANGED <<toolchains, pc>>
             ELSE IF ~validateLocalDependencies(pkg.present, d)
             THEN /\ rd' = [rd EXCEPT !.pc = "done", !.outcome = "returned",
                                      !.success = FALSE]
                  /\ UNCHANGED <<toolchains, pc>>
             ELSE IF DOMAIN d.toolchains.remote = {}
             THEN /\ rd' = [rd EXCEPT !.pc = "done", !.outcome = "returned",
                                      !.success = TRUE, !.localValid = TRUE]
                  /\ UNCHANGED <<toolchains, pc>>
             ELSE /\ rd' = [rd EXCEPT !.pc = "fetchAll", !.localValid = TRUE]
                  /\ toolchains' = [kind |-> "object", value |-> d.toolchains.remote]
                  /\ pc' = "start"
    /\ UNCHANGED <<names, idx, results, ret, events, dirs, cache, locals, history, tcInfo,
                   scenario, pkg, vc, indexVars, side>>

\* await fetchAllToolchains(...) settles: a rejection leaves
\* resolveDependencies; a result is pushed and success is every(r.success)
ResolveSettle ==
    /\ rd.pc = "fetchAll"
    /\ pc = "done"
    /\ rd' = IF ret.state = "rejected"
             THEN [rd EXCEPT !.pc = "done", !.outcome = "thrown",
                             !.error = "toolchains must be a string or array of strings"]
             ELSE [rd EXCEPT !.pc = "done", !.outcome = "returned",
                             !.toolchainResults = results,
                             !.success = allSuccess(results)]
    /\ UNCHANGED <<batch, pc, dirs, cache, locals, history, tcInfo, scenario, pkg, deps, vc,
                   indexVars, side>>

NextDeps == ResolveDependencies \/ Normalize \/ ResolveSettle

SpecDeps == InitDeps /\ [][NextDeps]_vars

\* ------------------------------------------------------------ packages-index.js
MaxCalls == 3

MaxTicks == 3

REGISTRY_URL == "https://registry/packages.json"

\* another registry a caller may name
MIRROR_URL == "https://mirror/packages.json"

RegistryUrls == {REGISTRY_URL, MIRROR_URL}

Revisions == {"1.0.0", "2.0.0"}

\* The index a source serves: it names its source and its revision.
IndexData(source, rev) ==
    [toolchains |-> <<ToolchainInfo("avr", rev, NoList, NoList, NoMap, source,
                                    Undefined, "")>>]

\* What the request to the Resource Service may end in: a connection
\* error, the timeout, a status other than 200, a body JSON.parse rejects,
\* a body without success/data, or {success: true, data}.
ServiceAnswers ==
    {[kind |-> k, data |-> Null] :
        k \in {"error", "timeout", "status", "unparsable", "nodata"}}
    \cup {[kind |-> "ok", data |-> IndexData("service", r)] : r \in Revisions}

fetchFromResourceService(answer) ==
    IF answer.kind = "ok" THEN answer.data ELSE Null

\* What the fetch of the registry URL may end in: a rejected fetch
\* (connection error, timeout), a status that is not ok, a body that is no
\* JSON, JSON without a packages field, or {packages}.
RegistryAnswers(url) ==
    {[kind |-> k, data |-> Null] : k \in {"error", "status", "unparsable", "nopackages"}}
    \cup {[kind |-> "ok", data |-> IndexData(url, r)] : r \in Revisions}

\* the try block returns the promise of response.json() without awaiting
\* it: its rejection is not caught
fetchFromRegistry(answer) ==
    IF answer.kind \in {"error", "status"} THEN [threw |-> FALSE, data |-> Null]
    ELSE IF answer.kind = "unparsable" THEN [threw |-> TRUE, data |-> Null]
    ELSE [threw |-> FALSE, data |-> [packages |-> answer.data]]

\* fetchToolchain: getPackagesIndex()
FetchToolchainOptions ==
    [caller |-> "fetchToolchain", registryUrl |-> "", forceRefresh |-> FALSE]

\* the exported getPackagesIndex called with options
IndexOptions ==
    {FetchToolchainOptions}
    \cup {[caller |-> "module", registryUrl |-> u, forceRefresh |-> f] :
            u \in {""} \cup RegistryUrls, f \in BOOLEAN}

TickSteps == {1, PACKAGES_CACHE_TTL - 1}

fetcherVars ==
    <<batch, pc, dirs, cache, locals, history, tcInfo, vc, scenario, pkg, deps, rd, side>>

InitIndex ==
    /\ scenario = "index"
    /\ NoProject
    /\ NoIndexCalls
    /\ NoSide
    /\ IdleFetcher

\* getPackagesIndex: "Check memory cache"
cacheValid(forceRefresh, cached, stamp, t) ==
    ~forceRefresh /\ cached # Null /\ t - stamp < PACKAGES_CACHE_TTL

\* getPackagesIndex up to its first await
CallGetPackagesIndex ==
    /\ gp.pc = "idle"
    /\ calls < MaxCalls
    /\ calls' = calls + 1
    /\ \E options \in IndexOptions :
          LET call == [NoCall EXCEPT
                          !.options = options,
                          !.cachedAtCall = cachedPackages,
                          !.cacheAfter = cachedPackages,
                          !.expectCached = /\ ~options.forceRefresh
                                           /\ populatedAt >= 0
                                           /\ now - populatedAt < PACKAGES_CACHE_TTL,
                          !.refreshCase = \/ options.forceRefresh
                                          \/ populatedAt = -2
                                          \/ /\ populatedAt >= 0
                                             /\ now - populatedAt >= PACKAGES_CACHE_TTL]
          IN IF cacheValid(options.forceRefresh, cachedPackages, cacheTimestamp, now)
             THEN gp' = [call EXCEPT !.outcome = "returned", !.value = cachedPackages]
             ELSE gp' = [call EXCEPT !.pc = IF options.registryUrl = ""
                                            THEN "service" ELSE "registry"]
    /\ UNCHANGED <<fetcherVars, cachedPackages, cacheTimestamp, now, ticks, populatedAt>>

\* "Default empty structure", "Update cache", return packages
Finish(call, packages) ==
    LET p == IF packages = Null THEN EmptyPackages ELSE packages
    IN /\ cachedPackages' = p
       /\ cacheTimestamp' = now
       /\ populatedAt' = now
       /\ gp' = [call EXCEPT !.pc = "idle", !.outcome = "returned", !.value = p,
                             !.defaulted = (packages = Null), !.cacheAfter = p]

\* the Resource Service request settles; no registryUrl, so no registry fetch
ServiceSettles ==
    /\ gp.pc = "service"
    /\ \E answer \in ServiceAnswers :
          LET packages == fetchFromResourceService(answer)
          IN Finish([gp EXCEPT !.contacted = @ \cup {"service"},
                               !.failed = IF answer.kind = "ok" THEN @
                                          ELSE @ \cup {"service"}], packages)
    /\ UNCHANGED <<fetcherVars, now, calls, ticks>>

\* the registry fetch settles: data && data.packages, or the rejection of
\* response.json() leaves getPackagesIndex
RegistrySettles ==
    /\ gp.pc = "registry"
    /\ \E answer \in RegistryAnswers(gp.options.registryUrl) :
          LET r == fetchFromRegistry(answer)
              call == [gp EXCEPT !.contacted = @ \cup {"registry"},
                                 !.failed = IF answer.kind = "ok" THEN @
                                            ELSE @ \cup {"registry"}]
          IN IF r.threw
             THEN /\ gp' = [call EXCEPT !.pc = "idle", !.outcome = "threw"]
                  /\ UNCHANGED <<cachedPackages, cacheTimestamp, populatedAt>>
             ELSE Finish(call, IF r.data # Null /\ r.data.packages # Null
                               THEN r.data.packages ELSE Null)
    /\ UNCHANGED <<fetcherVars, now, calls, ticks>>

clearCache ==
    /\ cachedPackages' = Null
    /\ cacheTimestamp' = 0
    /\ populatedAt' = -2
    /\ UNCHANGED <<fetcherVars, now, gp, calls, ticks>>

\* time passes
Tick ==
    /\ ticks < MaxTicks
    /\ ticks' = ticks + 1
    /\ \E d \in TickSteps : now' = now + d
    /\ UNCHANGED <<fetcherVars, cachedPackages, cacheTimestamp, gp, calls, populatedAt>>

NextIndex ==
    \/ CallGetPackagesIndex
    \/ ServiceSettles
    \/ RegistrySettles
    \/ clearCache
    \/ Tick

SpecIndex == InitIndex /\ [][NextIndex]_vars

\* ------------------------------------------------------------ resource-register.js
MaxEntries == 3

\* names of toolchain results handed to the merge
MergeNames == {"avr", "micropython"}

\* tc.name.startsWith('micropython') ? 'micropython' : 'arduino'
platformOf(tcName) == IF tcName = "micropython" THEN "micropython" ELSE "arduino"

\* the results a caller can hand over: downloaded, skipped with the local
\* copy's path, skipped without a path, failed
MergeEntries ==
    UNION {{Result(TRUE, n, "7.3.0", FALSE, destDir(n), ""),
            Result(TRUE, n, "latest", TRUE, destDir(n), ""),
            Result(TRUE, n, "latest", TRUE, <<>>, ""),
            Result(FALSE, n, "", FALSE, <<>>, "network")} : n \in MergeNames}

\* what mergeToolchain resolves with; it never rejects
MergeAnswers ==
    {[success |-> TRUE, merged |-> m, message |-> ""] : m \in 0..1}
        \cup {[success |-> FALSE, merged |-> 0, message |-> "Merge failed"]}

\* variant: every entry is sent to the service
skipEntryNever(tc) == FALSE

\* if (!tc.extractPath) continue
skipEntry(tc) == tc.extractPath = <<>>

InitMerge ==
    /\ scenario = "merge"
    /\ NoProject
    /\ NoIndexCalls
    /\ IdleFetcher
    /\ dp = NoStream
    /\ procs = [p \in Procs |-> NoProc]
    /\ \E input \in SeqsUpTo(MergeEntries, MaxEntries) :
           mg = [NoMerge EXCEPT !.pc = "loop", !.input = input]

mergeFrame == <<batch, pc, dirs, cache, locals, history, tcInfo, vc, scenario, pkg, deps, rd,
                indexVars, dp, procs>>

\* one turn of the for loop up to the await: skip the entry or send the request
MergeEntry ==
    /\ mg.pc = "loop"
    /\ mg.i <= Len(mg.input)
    /\ LET tc == mg.input[mg.i]
       IN mg' = IF skipEntry(tc)
                THEN [mg EXCEPT !.i = @ + 1]
                ELSE [mg EXCEPT !.pc = "await",
                                !.requests = Append(@, [platform |-> platformOf(tc.name),
                                                        sourcePath |-> tc.extractPath])]
    /\ UNCHANGED mergeFrame

\* await mergeToolchain(...) settles
MergeSettles ==
    /\ mg.pc = "await"
    /\ \E result \in MergeAnswers :
           LET tc == mg.input[mg.i]
           IN mg' = [mg EXCEPT !.pc = "loop",
                               !.i = @ + 1,
                               !.answers = Append(@, result.success),
                               !.totalMerged = IF result.success THEN @ + result.merged ELSE @,
                               !.errors = IF result.success THEN @
                                          ELSE Append(@, [name |-> tc.name,
                                                          message |-> result.message])]
    /\ UNCHANGED mergeFrame

\* return {success: errors.length === 0, merged: totalMerged, errors}
MergeReturn ==
    /\ mg.pc = "loop"
    /\ mg.i > Len(mg.input)
    /\ mg' = [mg EXCEPT !.pc = "done",
                        !.ret = [success |-> Len(mg.errors) = 0,
                                 merged |-> mg.totalMerged,
                                 errors |-> mg.errors]]
    /\ UNCHANGED mergeFrame

NextMerge == MergeEntry \/ MergeSettles \/ MergeReturn

SpecMerge == InitMerge /\ [][NextMerge]_vars

\* ------------------------------------------------------------ download progress
\* The loop of downloadAndExtract over the chunks of the response body, with
\* the onDownloadProgress callback of the dev command as options.onProgress.
MaxChunks == 4

\* chunk.length
ChunkSizes == {1, 100}

RECURSIVE Sum(_)
Sum(q) == IF q = <<>> THEN 0 ELSE Head(q) + Sum(Tail(q))

\* Math.round((downloadedSize / totalSize) * 100)
percentOf(downloadedSize, totalSize) == (200 * downloadedSize + totalSize) \div (2 * totalSize)

\* dev.js: if (percent === lastTcPercent) return
percentUnchanged(percent, lastTcPercent) == percent = lastTcPercent

\* the response arrives in some chunks; totalSize is options.size or the
\* content-length header, 0 when neither is there
InitProgress ==
    /\ scenario = "progress"
    /\ NoProject
    /\ NoIndexCalls
    /\ IdleFetcher
    /\ mg = NoMerge
    /\ procs = [p \in Procs |-> NoProc]
    /\ \E stream \in SeqsUpTo(ChunkSizes, MaxChunks) :
          \E totalSize \in {0, Sum(stream)} :
             dp = [NoStream EXCEPT !.pc = "stream", !.stream = stream,
                                   !.totalSize = totalSize]

progressFrame == <<batch, pc, dirs, cache, locals, history, tcInfo, vc, scenario, pkg, deps,
                   rd, indexVars, mg, procs>>

\* for await (const chunk of response.body): count the chunk, and with a known
\* total call options.onProgress with the rounded percent
StreamChunk ==
    /\ dp.pc = "stream"
    /\ dp.n < Len(dp.stream)
    /\ LET downloadedSize == dp.downloadedSize + dp.stream[dp.n + 1]
           percent == percentOf(downloadedSize, dp.totalSize)
       IN dp' = IF dp.totalSize > 0
                THEN [dp EXCEPT !.n = @ + 1,
                                !.downloadedSize = downloadedSize,
                                !.invocations = Append(@, percent),
                                !.lastTcPercent =
                                    IF percentUnchanged(percent, @) THEN @ ELSE percent,
                                !.shown =
                                    IF percentUnchanged(percent, dp.lastTcPercent) THEN @
                                    ELSE Append(@, percent)]
                ELSE [dp EXCEPT !.n = @ + 1, !.downloadedSize = downloadedSize]
    /\ UNCHANGED progressFrame

\* the connection breaks before the next chunk
StreamBreaks ==
    /\ dp.pc = "stream"
    /\ dp.n < Len(dp.stream)
    /\ dp' = [dp EXCEPT !.pc = "failed"]
    /\ UNCHANGED progressFrame

\* the body is complete: Buffer.concat(chunks)
StreamEnds ==
    /\ dp.pc = "stream"
    /\ dp.n = Len(dp.stream)
    /\ dp' = [dp EXCEPT !.pc = "done"]
    /\ UNCHANGED progressFrame

NextProgress == StreamChunk \/ StreamBreaks \/ StreamEnds

SpecProgress == InitProgress /\ [][NextProgress]_vars

\* ------------------------------------------------------------ two invocations
\* Two CLI invocations (two operating-system processes, no lock between
\* them) that fetch the same toolchain into the same project: each found the
\* destination absent, obtained the archive and opened it, and now runs the
\* try block of downloadAndExtract on the shared directories.
RaceName == "avr"

\* the archive both invocations opened: a valid zip
RaceArchive == ExpectedBuffer

InitRace ==
    /\ scenario = "race"
    /\ NoProject
    /\ NoIndexCalls
    /\ NoSide
    /\ IdleFetcher

raceFrame == <<batch, pc, cache, locals, history, tcInfo, vc, scenario, pkg, deps, rd,
               indexVars, mg, dp>>

\* the invocation's error handling: the catch block runs next
Failing(proc, error) == [proc EXCEPT !.pc = "catch", !.thrown = error]

\* new AdmZip(archivePath) done: the invocation enters the try block
RaceEnter(p) ==
    /\ procs[p].pc = "idle"
    /\ procs' = [procs EXCEPT ![p].pc = "rmStage"]
    /\ UNCHANGED <<dirs, raceFrame>>

\* fs.remove(tempExtractDir)
RaceRemoveStale(p) ==
    /\ procs[p].pc = "rmStage"
    /\ dirs' = fsRemove(dirs, tempExtractDir(destDir(RaceName)))
    /\ procs' = [procs EXCEPT ![p].pc = "mkStage"]
    /\ UNCHANGED raceFrame

\* fs.ensureDir(tempExtractDir)
RaceMakeStaging(p) ==
    /\ procs[p].pc = "mkStage"
    /\ dirs' = fsEnsureDir(dirs, tempExtractDir(destDir(RaceName)))
    /\ procs' = [procs EXCEPT ![p].pc = "extract"]
    /\ UNCHANGED raceFrame

\* zip.extractAllTo(tempExtractDir, true): one entry is written, the
\* directories on its path being created where they are missing
RaceExtractEntry(p) ==
    /\ procs[p].pc = "extract"
    /\ LET entries == zipEntries(RaceArchive)
           i == procs[p].extracted + 1
           target == tempExtractDir(destDir(RaceName))
       IN /\ dirs' = [dirs EXCEPT ![target] = Dir(@.files \cup {entries[i]})]
          /\ procs' = [procs EXCEPT ![p].extracted = i,
                                    ![p].pc = IF i = Len(entries) THEN "rmDest"
                                              ELSE "extract"]
    /\ UNCHANGED raceFrame

\* fs.remove(destDir)
RaceRemoveDest(p) ==
    /\ procs[p].pc = "rmDest"
    /\ dirs' = fsRemove(dirs, destDir(RaceName))
    /\ procs' = [procs EXCEPT ![p].pc = "move"]
    /\ UNCHANGED raceFrame

\* fs.move(tempExtractDir, destDir): rejects when the source is gone or the
\* destination exists
RaceMove(p) ==
    /\ procs[p].pc = "move"
    /\ LET src == tempExtractDir(destDir(RaceName))
           dst == destDir(RaceName)
       IN IF ~dirs[src].exists
          THEN /\ procs' = [procs EXCEPT ![p] = Failing(@, "ENOENT")]
               /\ UNCHANGED dirs
          ELSE IF dirs[dst].exists
          THEN /\ procs' = [procs EXCEPT ![p] = Failing(@, "dest already exists")]
               /\ UNCHANGED dirs
          ELSE /\ dirs' = fsMove(dirs, src, dst)
               /\ procs' = [procs EXCEPT ![p].pc = "done", ![p].outcome = "success"]
    /\ UNCHANGED raceFrame

\* catch (err): fs.remove(tempExtractDir); throw err
RaceCatch(p) ==
    /\ procs[p].pc = "catch"
    /\ dirs' = fsRemove(dirs, tempExtractDir(destDir(RaceName)))
    /\ procs' = [procs EXCEPT ![p].pc = "done", ![p].outcome = procs[p].thrown]
    /\ UNCHANGED raceFrame

NextRace ==
    \E p \in Procs :
        \/ RaceEnter(p)
        \/ RaceRemoveStale(p)
        \/ RaceMakeStaging(p)
        \/ RaceExtractEntry(p)
        \/ RaceRemoveDest(p)
        \/ RaceMove(p)
        \/ RaceCatch(p)

SpecRace == InitRace /\ [][NextRace]_vars

\* ============================================================ properties
\* A fetchToolchain call has returned and the loop has pushed its result.
FetchReturned ==
    /\ pc \in {"loop", "done"}
    /\ ret.state # "rejected"
    /\ Len(results) > 0
    /\ idx = Len(results) + 1

lastName == names[idx - 1]

lastResult == results[Len(results)]

\* The call ended with an error raised in the extraction part of
\* downloadAndExtract (from "Extract" on).
ExtractionFailed == FetchReturned /\ ~lastResult.success /\ "open" \in visited

\* C1: after an extraction failure the destination directory is exactly as
\* it was before the call (absent, or with its earlier contents).
C1_DestinationKeptOnExtractionFailure ==
    ExtractionFailed => dirs[destDir(lastName)] = priorDirs[destDir(lastName)]

\* C2: after a failed extraction attempt no <destination>.extracting
\* directory exists when the fetch returns.
C2_NoStagingAfterFailedExtraction ==
    ExtractionFailed => ~dirs[destDir(lastName) \o <<".extracting">>].exists

\* File sets of archives that extract completely.
CompleteExtractions ==
    {NewFiles(b) : b \in {x \in Buffers :
        zipOpens(x) /\ \A i \in 1..Len(zipEntries(x)) : ~zipEntryCorrupt(x, i)}}

DestNeverPartial ==
    \A n \in Names :
        \/ ~dirs[destDir(n)].exists
        \/ dirs[destDir(n)] = initDirs[destDir(n)]
        \/ dirs[destDir(n)].files \in CompleteExtractions

\* A step changes a destination only by removing it or by renaming the
\* staging directory onto it; files are added only under <dest>.extracting.
EntriesOnlyIntoStaging ==
    \A n \in Names :
        dirs'[destDir(n)] # dirs[destDir(n)] =>
            \/ ~dirs'[destDir(n)].exists
            \/ /\ pc = "move"
               /\ dirs'[destDir(n)] = dirs[destDir(n) \o <<".extracting">>]

\* C3: in every state the destination of a toolchain is absent, holds what
\* it held when the invocation started, or holds a complete new extraction;
\* entries are written only under the staging directory.
C3_DestinationNeverPartial == []DestNeverPartial /\ [][EntriesOnlyIntoStaging]_vars

C3_Witness ==
    \E n \in Names :
        /\ pc = "loop"
        /\ dirs[destDir(n)].files \in CompleteExtractions
        /\ dirs[destDir(n)] # initDirs[destDir(n)]

\* C4: for a list of names the returned results hold exactly one result per
\* input name, in input order.
C4_OneResultPerNameInOrder ==
    (ret.state = "resolved" /\ toolchains.kind = "array") =>
        /\ Len(results) = Len(toolchains.value)
        /\ \A i \in 1..Len(results) : results[i].name = toolchains.value[i]

C4_Witness ==
    /\ ret.state = "resolved"
    /\ toolchains.kind = "array"
    /\ Len(results) = 2
    /\ results[1].name # results[2].name
    /\ \E i, j \in 1..2 : results[i].success /\ ~results[j].success

\* C5: a batch over names never rejects; every failed toolchain is a result
\* with success false and an error message, and the names after it are
\* processed as well.
C5_FailuresCapturedInResults ==
    /\ ret.state = "rejected" => toolchains.kind = "object"
    /\ \A i \in 1..Len(results) : ~results[i].success => results[i].error # ""
    /\ (pc = "done" /\ toolchains.kind # "object") => Len(results) = Len(names)

C5_Witness ==
    /\ ret.state = "resolved"
    /\ Len(results) = 2
    /\ ~results[1].success
    /\ results[1].error = "checksum"
    /\ results[2].success

\* C6: the returned success flag is true exactly when every result in the
\* returned list succeeded.
C6_SuccessIsConjunction ==
    ret.state = "resolved" =>
        (ret.success <=> {i \in 1..Len(results) : ~results[i].success} = {})

C6_Witness ==
    /\ ret.state = "resolved"
    /\ ~ret.success
    /\ \E i \in 1..Len(results) : results[i].success

\* The name of the fetchToolchain call that is running or has just returned.
FetchStarted == pc \notin {"start", "loop", "done"} \/ FetchReturned

fetchName == IF pc \in {"loop", "done"} THEN lastName ELSE name

NonEmptyBefore ==
    /\ priorDirs[destDir(fetchName)].exists
    /\ priorDirs[destDir(fetchName)].files # {}

\* C7: when the destination directory exists and is non-empty at the call,
\* fetchToolchain returns a successful skipped result with the directory as
\* extractPath, queries no index, downloads nothing and changes no file.
C7_NonEmptyDestinationSkips ==
    (FetchStarted /\ NonEmptyBefore) =>
        /\ visited \subseteq {"checkLocal"}
        /\ dirs = priorDirs
        /\ cache = priorCache
        /\ FetchReturned =>
              lastResult = Result(TRUE, lastName, "latest", TRUE, destDir(lastName), "")

C7_Witness == FetchReturned /\ NonEmptyBefore /\ lastResult.skipped

\* The downloaded bytes do not have the digest the metadata names.
ChecksumMismatch ==
    /\ "bodyEnd" \in visited
    /\ Truthy(sha256)
    /\ sha256Hex(chunks) # toLowerCase(sha256)

\* C8: with a checksum in the metadata, bytes that fail it are never
\* extracted: the archive opened for extraction has the named digest, and a
\* download that does not match ends in a failed result without entering
\* extraction and without touching the destination.
C8_MismatchNeverExtracted ==
    /\ ("open" \in visited /\ Truthy(sha256)) =>
          sha256Hex(cache[archiveFile(archiveFileName)].bytes) = toLowerCase(sha256)
    /\ ChecksumMismatch =>
          /\ "open" \notin visited
          /\ dirs = priorDirs
          /\ FetchReturned
          /\ ~lastResult.success
          /\ lastResult.error # ""

C8_Witness == ChecksumMismatch /\ FetchReturned /\ lastResult.error = "checksum"

\* C9 as stated: true for the digest in bare or ALGO:hex form, false for the
\* digest of other content, true for an empty or absent expectation.
C9_VerifyChecksumAcceptsPrefixed ==
    (vc.called /\ ~vc.stripped) =>
        /\ vc.expected \in BareForms(vc.buffer) \cup PrefixedForms(vc.buffer) => vc.result
        /\ (\E b \in VerifyBuffers \ {vc.buffer} :
               vc.expected \in BareForms(b) \cup PrefixedForms(b)) => ~vc.result
        /\ vc.expected \in {Undefined, <<>>} => vc.result

\* C9 amended: verifyChecksum is true for the bare digest in either letter
\* case, false for the digest of other content and for any ALGO:hex form,
\* true for an empty or absent expectation; the ALGO:hex form of the
\* buffer's digest is accepted once fetchToolchain has stripped the prefix.
C9_VerifyChecksumBareOnly ==
    vc.called =>
        /\ ~vc.stripped =>
              /\ vc.expected \in BareForms(vc.buffer) => vc.result
              /\ vc.expected \in PrefixedForms(vc.buffer) => ~vc.result
              /\ (\E b \in VerifyBuffers \ {vc.buffer} :
                     vc.expected \in BareForms(b) \cup PrefixedForms(b)) => ~vc.result
              /\ vc.expected \in {Undefined, <<>>} => vc.result
        /\ vc.stripped =>
              /\ vc.given \in BareForms(vc.buffer) \cup PrefixedForms(vc.buffer) => vc.result
              /\ (\E b \in VerifyBuffers \ {vc.buffer} :
                     vc.given \in BareForms(b) \cup PrefixedForms(b)) => ~vc.result

C9_Witness ==
    /\ vc.called
    /\ ~vc.stripped
    /\ vc.expected = toUpperCase(sha256Hex(vc.buffer))
    /\ vc.result

\* The archive cached before the call verifies against the checksum.
CacheHit ==
    LET f == priorCache[archiveFile(archiveFileName)]
    IN f.exists /\ Truthy(sha256) /\ sha256Hex(f.bytes) = toLowerCase(sha256)

DownloadIffNoCacheHit ==
    "cacheCheck" \in visited =>
        /\ (pc = "fetch" \/ "fetch" \in visited) <=> ~CacheHit
        /\ ("open" \in visited /\ ~CacheHit) =>
              /\ chunks = body
              /\ cache[archiveFile(archiveFileName)] = File(body)

CacheWrittenAfterWholeBody ==
    cache' # cache =>
        /\ pc = "body"
        /\ chunks = body
        /\ cache' = [cache EXCEPT ![archiveFile(archiveFileName)] = File(body)]

\* C10: the download is skipped exactly when a cached archive exists, a
\* checksum was supplied and the cached bytes verify; otherwise the whole
\* body is downloaded, and the cache file is written only once the whole
\* body has been collected.
C10_DownloadSkippedIffCacheVerifies ==
    []DownloadIffNoCacheHit /\ [][CacheWrittenAfterWholeBody]_vars

C10_Witness ==
    /\ "cacheCheck" \in visited
    /\ CacheHit
    /\ "open" \in visited
    /\ "fetch" \notin visited

\* ------------------------------------------------------------ C11
\* The version entry an index entry publishes: the entry itself in
\* single-version form, the first of the list in versions-list form.
PublishedEntry(entry) ==
    IF entry.versions.defined
    THEN IF Len(entry.versions.list) > 0 THEN entry.versions.list[1] ELSE Null
    ELSE IF entry.version # ""
    THEN [version |-> entry.version, systems |-> entry.systems,
          platforms |-> entry.platforms, url |-> entry.url,
          checksum |-> entry.checksum, archiveFileName |-> entry.archiveFileName]
    ELSE Null

SystemsUrl(entry) ==
    LET s == findMatchingSystem(entry.systems)
    IN IF s = Null THEN "" ELSE s.url

PlatformsUrl(entry) ==
    IF entry.platforms.defined /\ platform \in DOMAIN entry.platforms.map
    THEN LET p == entry.platforms.map[platform]
         IN IF p.downloadUrl # "" THEN p.downloadUrl ELSE p.url
    ELSE ""

\* systems entry for the host, else platforms entry, else direct url
PriorityUrl(entry) ==
    IF SystemsUrl(entry) # "" THEN SystemsUrl(entry)
    ELSE IF PlatformsUrl(entry) # "" THEN PlatformsUrl(entry)
    ELSE entry.url

MetadataResolved ==
    /\ "index" \in visited
    /\ tcInfo # Null
    /\ PublishedEntry(tcInfo) # Null

\* C11: the download, checksum and archive name come from the systems entry
\* of the host, else from the platforms entry of the platform, else from the
\* version entry's direct url; the fetch fails with "no download URL" only
\* when none of the three gives a URL; in single-version and versions-list
\* form alike.
C11_DownloadSourcePriority ==
    MetadataResolved =>
        IF PriorityUrl(PublishedEntry(tcInfo)) = ""
        THEN FetchReturned /\ lastResult.error = "no download URL"
        ELSE /\ downloadUrl = PriorityUrl(PublishedEntry(tcInfo))
             /\ FetchReturned => lastResult.error # "no download URL"

\* ------------------------------------------------------------ C12
\* Every awaited operation settles (the requests carry timeouts), and the
\* event loop then runs the continuation: a step that is possible is taken.
SpecLive == Spec /\ WF_vars(Next)

\* The hex digest a published checksum names, with or without `ALGO:`.
PublishedDigest(c) ==
    LET colons == {i \in 1..Len(c) : c[i] = ":"}
        first == CHOOSE i \in colons : \A j \in colons : i <= j
    IN toLowerCase(IF colons = {} THEN c ELSE SubSeq(c, first + 1, Len(c)))

ValidZip(bytes) ==
    /\ zipOpens(bytes)
    /\ \A i \in 1..Len(zipEntries(bytes)) : ~zipEntryCorrupt(bytes, i)

HostSystemEntry == findMatchingSystem(PublishedEntry(tcInfo).systems)

\* The premises of the end-to-end scenario, for the call that has returned:
\* no destination, a version with a systems entry for this host, the whole
\* body downloaded, bytes that match the published checksum, a valid zip,
\* and no file operation of the extraction failing.
EndToEndPremises ==
    /\ ~priorDirs[destDir(lastName)].exists
    /\ MetadataResolved
    /\ SystemsUrl(PublishedEntry(tcInfo)) # ""
    /\ "bodyEnd" \in visited
    /\ Truthy(HostSystemEntry.checksum) =>
          PublishedDigest(HostSystemEntry.checksum) = sha256Hex(chunks)
    /\ ValidZip(chunks)
    /\ lastResult.error # "io"

EndToEndSuccess ==
    /\ lastResult = Result(TRUE, lastName, PublishedEntry(tcInfo).version, FALSE,
                           destDir(lastName), "")
    /\ dirs[destDir(lastName)] = Dir(NewFiles(chunks))

\* C12: a call of fetchToolchain returns; and when the destination was
\* absent, the index had a version with a systems entry for this host, the
\* download delivered bytes matching the (possibly prefixed) checksum and
\* the archive was a valid zip, what it returns is the successful result
\* with the index's version and the destination as extractPath, with the
\* archive's entries in that directory.
C12_EndToEndSuccess ==
    (pc = "checkLocal") ~> (FetchReturned /\ (EndToEndPremises => EndToEndSuccess))

C12_Witness ==
    /\ FetchReturned
    /\ EndToEndPremises
    /\ EndToEndSuccess
    /\ includes(HostSystemEntry.checksum, ":")

\* ------------------------------------------------------------ C13
\* The remote toolchains the project declares: names mapped to "latest".
DeclaredRemote ==
    {pkg.toolchains[i].name :
        i \in {k \in 1..Len(pkg.toolchains) : pkg.toolchains[k].value = Latest}}

ResolutionEnded == rd.pc = "done"

\* C13: for a project that declares remote toolchains (and whose local
\* dependencies exist), dependency resolution ends with one FetchResult per
\* declared remote toolchain name.
C13_OneResultPerDeclaredRemote ==
    (ResolutionEnded /\ ~deps.threw /\ rd.localValid /\ DeclaredRemote # {}) =>
        /\ rd.outcome = "returned"
        /\ Len(rd.toolchainResults) = Cardinality(DeclaredRemote)
        /\ {rd.toolchainResults[i].name : i \in 1..Len(rd.toolchainResults)}
              = DeclaredRemote

\* ------------------------------------------------------------ C14
Malformed ==
    \/ pkg.state \in {"absent", "unparsable"}
    \/ \E i \in 1..Len(pkg.libraries) : pkg.libraries[i].value = NotAString
    \/ \E i \in 1..Len(pkg.toolchains) : pkg.toolchains[i].value = NotAString

\* C14: for a project whose package.json is absent, unparsable or holds a
\* dependency value that is no string, dependency resolution ends with an
\* error, never with a result, and fetchAllToolchains is never called.
C14_MalformedProjectAborts ==
    (ResolutionEnded /\ Malformed) => (rd.outcome = "thrown" /\ pc = "idle")

\* ------------------------------------------------------------ C15
Warned(kind, n) ==
    \E i \in 1..Len(deps.warnings) : deps.warnings[i] = [kind |-> kind, name |-> n]

Holds(map, n, v) == n \in DOMAIN map /\ map[n] = v

IsPath(v) == startsWith(v, <<".", "/">>) \/ startsWith(v, <<".", ".", "/">>)

ToolchainsClassified ==
    \A i \in 1..Len(pkg.toolchains) :
        LET n == pkg.toolchains[i].name
            v == pkg.toolchains[i].value
            local == Holds(deps.toolchains.local, n, v)
            remote == Holds(deps.toolchains.remote, n, v)
            warned == Warned("toolchain", n)
        IN /\ IsPath(v) => (local /\ ~remote /\ ~warned)
           /\ (~IsPath(v) /\ v = Latest) => (~local /\ remote /\ ~warned)
           /\ (~IsPath(v) /\ v # Latest) =>
                 (~local /\ ~remote /\ warned
                  /\ n \notin DOMAIN deps.toolchains.local
                  /\ n \notin DOMAIN deps.toolchains.remote)

LibrariesClassified ==
    \A i \in 1..Len(pkg.libraries) :
        LET n == pkg.libraries[i].name
            v == pkg.libraries[i].value
        IN IF IsPath(v)
           THEN Holds(deps.libraries, n, v) /\ ~Warned("library", n)
           ELSE n \notin DOMAIN deps.libraries /\ Warned("library", n)

Parsed == deps # Null /\ ~deps.threw

\* C15: parseDependencies puts every declared toolchain in exactly one of
\* toolchains.local (value starts with ./ or ../), toolchains.remote (value
\* "latest") and warnings (anything else), and every declared library in
\* exactly one of libraries (a local path) and warnings; a warned entry is
\* in none of the maps.
C15_DependencyClassification ==
    Parsed => (ToolchainsClassified /\ LibrariesClassified)

C15_Witness ==
    /\ Parsed
    /\ \E n \in Names : Holds(deps.toolchains.local, n, <<".", ".", "/", "x">>)
    /\ \E n \in Names : Holds(deps.toolchains.remote, n, Latest)
    /\ \E i \in 1..Len(pkg.libraries) : pkg.libraries[i].value = Latest
    /\ Warned("library", "servo")

\* ------------------------------------------------------------ C16
\* The latest getPackagesIndex call has settled.
IndexCallSettled == gp.pc = "idle" /\ gp.outcome # "none"

\* the call asked a source, and every source it asked failed
SourcesFailed == gp.contacted # {} /\ gp.failed = gp.contacted

\* C16: getPackagesIndex never throws; a call whose sources fail returns
\* the empty default structure.
C16_IndexNeverThrows ==
    IndexCallSettled =>
        /\ gp.outcome = "returned"
        /\ SourcesFailed => gp.value = EmptyPackages

\* ------------------------------------------------------------ C17
\* C17: a getPackagesIndex call made by fetchToolchain whose Resource
\* Service request fails goes on to fetch from the registry, and returns
\* the empty index only if that fails too.
C17_RegistryFallbackDuringFetch ==
    (IndexCallSettled /\ gp.options.caller = "fetchToolchain" /\ "service" \in gp.failed) =>
        "registry" \in gp.contacted

\* ------------------------------------------------------------ C18
\* C18: a call made less than PACKAGES_CACHE_TTL after the cache was last
\* filled, without forceRefresh and with no clearCache in between, returns
\* the cached index and asks no source; a call with forceRefresh, after a
\* clearCache, or PACKAGES_CACHE_TTL or more after the cache was filled
\* asks a source and leaves what it obtained in the cache.
C18_CacheReuseWithinTtl ==
    IndexCallSettled =>
        /\ gp.expectCached =>
              /\ gp.outcome = "returned"
              /\ gp.value = gp.cachedAtCall
              /\ gp.contacted = {}
        /\ gp.refreshCase =>
              /\ gp.contacted # {}
              /\ gp.outcome = "returned"
              /\ gp.cacheAfter = gp.value

\* ------------------------------------------------------------ C19
\* C19: a call that returns the empty default structure because its
\* sources gave nothing leaves the cache without that structure.
C19_EmptyDefaultNotCached ==
    (IndexCallSettled /\ gp.outcome = "returned" /\ gp.defaulted) =>
        gp.cacheAfter # gp.value

\* ------------------------------------------------------------ C20
FilesAvailable(dir) == dir.exists /\ dir.files # {}

HasExtractPath(r) == r.extractPath # <<>>

\* C20: in every result error is present exactly when success is false, and
\* a failed result has no extractPath; the result a call returns has an
\* extractPath exactly when the toolchain's files are in its directory when
\* it returns (freshly extracted, or there before the call), the path being
\* that directory; a result skipped because options.hasToolchain reported
\* the toolchain has none.
C20_ExtractPathAndErrorPresence ==
    /\ \A i \in 1..Len(results) :
          /\ (results[i].error # "") <=> ~results[i].success
          /\ ~results[i].success => ~HasExtractPath(results[i])
          /\ HasExtractPath(results[i]) => results[i].extractPath = destDir(names[i])
    /\ FetchReturned =>
          /\ HasExtractPath(lastResult) <=> FilesAvailable(dirs[destDir(lastName)])
          /\ (lastResult.skipped /\ ~NonEmptyBefore) => ~HasExtractPath(lastResult)

C20_Witness ==
    /\ FetchReturned
    /\ Len(results) = 2
    /\ results[1].success /\ results[1].skipped /\ ~HasExtractPath(results[1])
    /\ results[2].success /\ ~results[2].skipped /\ HasExtractPath(results[2])
    /\ FilesAvailable(dirs[destDir(lastName)])

\* ------------------------------------------------------------ C21
RECURSIVE WithPath(_)
\* the entries of a list that carry an extractPath, in the list's order
WithPath(input) ==
    IF input = <<>> THEN <<>>
    ELSE IF Head(input).extractPath # <<>>
         THEN <<Head(input)>> \o WithPath(Tail(input))
         ELSE WithPath(Tail(input))

RECURSIVE FailedNames(_, _)
\* the names of the entries whose merge request the service answered with a failure
FailedNames(entries, answers) ==
    IF entries = <<>> \/ answers = <<>> THEN <<>>
    ELSE IF Head(answers)
         THEN FailedNames(Tail(entries), Tail(answers))
         ELSE <<Head(entries).name>> \o FailedNames(Tail(entries), Tail(answers))

MergeReturned == scenario = "merge" /\ mg.pc = "done"

\* C21: when registerToolchainMerge returns, the merge requests it issued are
\* exactly those of the input entries that carry an extractPath, one each and
\* in input order (so a failed merge stopped none of the later ones); the
\* error list names exactly the entries whose merge failed; and the returned
\* success is true if and only if the error list is empty.
C21_MergeRequestsAndErrors ==
    MergeReturned =>
        LET sent == WithPath(mg.input)
        IN /\ Len(mg.requests) = Len(sent)
           /\ \A k \in 1..Len(sent) :
                  mg.requests[k] = [platform |-> platformOf(sent[k].name),
                                    sourcePath |-> sent[k].extractPath]
           /\ Len(mg.answers) = Len(sent)
           /\ [k \in 1..Len(mg.errors) |-> mg.errors[k].name]
                  = FailedNames(sent, mg.answers)
           /\ mg.ret.errors = mg.errors
           /\ mg.ret.success <=> (mg.errors = <<>>)

\* a call with an entry without extractPath, then a merge that fails, then a
\* further merge that is still requested and succeeds
C21_Witness ==
    /\ MergeReturned
    /\ Len(mg.input) = 3
    /\ mg.input[1].extractPath = <<>>
    /\ mg.answers = <<FALSE, TRUE>>
    /\ Len(mg.requests) = 2
    /\ ~mg.ret.success

\* ------------------------------------------------------------ C22
\* a fetchToolchain call of the batch is between its first step and its result
FetchInProgress == scenario = "batch" /\ pc \notin {"start", "loop", "done"}

\* C22: within one fetchAllToolchains batch, while any step of a fetch runs
\* (local check, index, cache check, download, verification, extraction) it
\* is the fetch of the one name at the loop's position, the FetchResult of
\* every earlier name has been produced and none for this or a later name:
\* no step of name i+1 happens before the result of name i exists, so no two
\* fetches of the batch are in progress, or write the download cache, at once.
C22_OneFetchAtATime ==
    FetchInProgress =>
        /\ idx \in 1..Len(names)
        /\ Len(results) = idx - 1
        /\ \A k \in 1..(idx - 1) : results[k].name = names[k]

\* the second name's body is being downloaded after the first name's archive
\* was downloaded and extracted
C22_Witness ==
    /\ FetchInProgress
    /\ idx = 2
    /\ pc = "body"
    /\ chunks # <<>>
    /\ results[1].success
    /\ ~results[1].skipped
    /\ names[1] # names[2]

\* ------------------------------------------------------------ C23
\* the staging directory of the name whose fetch returned last
lastStaging == tempExtractDir(destDir(lastName))

\* an earlier run, ended during extraction, left <destination>.extracting
\* behind, and a fetch of that name has now returned
ReturnedOverStaleStaging == FetchReturned /\ priorDirs[lastStaging].exists

\* the call got as far as the try block of the extraction: the archive was
\* obtained and the zip reader opened it
ExtractionEntered ==
    /\ "open" \in visited
    /\ zipOpens(cache[archiveFile(archiveFileName)].bytes)

TerminalStatuses == {"done", "error"}

\* the position in the batch of the fetch that the event at p belongs to:
\* the number of 'fetching' events up to p
FetchOf(p) == Cardinality({q \in 1..p : events[q].status = "fetching"})

Reported(status) == \E p \in 1..Len(events) : events[p].status = status

\* the shape of the event sequence, in every state
EventsWellFormed ==
    /\ \A p \in 1..Len(events) :
          LET e == events[p]
              k == FetchOf(p)
          IN /\ k \in 1..Len(names)
             /\ e.name = names[k]
             /\ IF e.status = "fetching"
                THEN p = 1 \/ events[p - 1].status \in TerminalStatuses
                ELSE p > 1 /\ events[p - 1].status \notin TerminalStatuses
             /\ e.status \in TerminalStatuses =>
                    /\ k <= Len(results)
                    /\ e.status = "done" <=> results[k].success
    /\ Cardinality({p \in 1..Len(events) : events[p].status \in TerminalStatuses})
           = Len(results)

\* a step that reports 'extracting' is taken with an archive in the cache
\* that matches the checksum, 'verifying' being the last status reported, or
\* without a checksum
ExtractingAfterVerification ==
    (Len(events') > Len(events) /\ "extracting" \in
         {events'[p].status : p \in (Len(events) + 1)..Len(events')}) =>
        \/ ~Truthy(sha256)
        \/ /\ verifyChecksum(cache[archiveFile(archiveFileName)].bytes, sha256)
           /\ events[Len(events)].status = "verifying"

\* C24: the events of a batch come in one block per name, in the order of the
\* names: each block starts with 'fetching', ends with one terminal event,
\* which is 'done' exactly if that name's FetchResult has success true and
\* 'error' otherwise, and holds the name's status events in between; every
\* result has its terminal event; no event follows a terminal event but the
\* 'fetching' of the next name; and 'extracting' is reported only once the
\* archive matched the checksum or when there is no checksum.
C24_ProgressEventOrder == []EventsWellFormed /\ [][ExtractingAfterVerification]_vars

\* a batch of two names: the first ends with 'error', the second is
\* downloaded, verified, extracted and ends with 'done'
C24_Witness ==
    /\ scenario = "batch"
    /\ Len(results) = 2
    /\ ~results[1].success
    /\ results[2].success
    /\ events[Len(events)] = Event(names[2], "done")
    /\ Reported("error")
    /\ Reported("downloading")
    /\ Reported("verifying")
    /\ Reported("extracting")

\* ------------------------------------------------------------ C25
\* C25: while a download streams, no two successive invocations of the
\* progress callback carry the same percent.
C25_ProgressOncePerPercent ==
    scenario = "progress" =>
        \A k \in 2..Len(dp.invocations) : dp.invocations[k] # dp.invocations[k - 1]

\* ------------------------------------------------------------ C26
\* everything that follows the first occurrence of ch in s
afterFirst(s, ch) ==
    LET i == CHOOSE k \in 1..Len(s) : s[k] = ch /\ \A j \in 1..(k - 1) : s[j] # ch
    IN SubSeq(s, i + 1, Len(s))

\* fetchToolchain's handling of the metadata checksum followed by the check
\* of the digest, as downloadAndExtract makes it when a checksum is there
ComparedAsFetched == scenario = "verify" /\ vc.stripped /\ vc.called /\ Truthy(vc.given)

\* C26: with a checksum containing a colon the digest of the bytes is
\* compared, ignoring case, with everything that follows the first colon;
\* a checksum without colon is compared as it is, ignoring case.
C26_ComparesPortionAfterFirstColon ==
    ComparedAsFetched =>
        (vc.result <=>
            toLowerCase(sha256Hex(vc.buffer))
                = toLowerCase(IF includes(vc.given, ":")
                              THEN afterFirst(vc.given, ":")
                              ELSE vc.given))

\* ------------------------------------------------------------ C27
\* the destination holds something other than nothing, what it held at the
\* start, or a complete extraction
AtomicityBroken == scenario = "race" /\ ~DestNeverPartial

\* C27: with two invocations extracting the same toolchain, a destination
\* that holds part of the archive is reachable, and it arises
\* only when both invocations have entered the extraction: in the runs in
\* which only one invocation extracts, the destination is never partial.
C27_AtomicityBrokenOnlyByTwo ==
    AtomicityBroken => \A p \in Procs : procs[p].pc # "idle"

\* one invocation removed the staging directory under the other, which then
\* moved what it had written since into place and reported success: the
\* destination holds one entry of two
C27_Witness ==
    /\ AtomicityBroken
    /\ \E p \in Procs : procs[p].outcome = "success"
    /\ dirs[destDir(RaceName)].exists
    /\ dirs[destDir(RaceName)].files = {"a2"}

\* ------------------------------------------------------------ C28
\* the result of the fetch before the last one
previousResult == results[Len(results) - 1]

\* two successive fetches of one name have returned, the first with success
\* and an extractPath; nothing but the first fetch itself touched the disk
\* before the second
FetchedTwice ==
    /\ FetchReturned
    /\ Len(results) >= 2
    /\ names[idx - 2] = lastName
    /\ previousResult.success
    /\ previousResult.extractPath # <<>>

DigestMatches(bytes, checksum) == toLowerCase(sha256Hex(bytes)) = toLowerCase(checksum)

\* a step that changes the download cache writes the complete downloaded
\* body to the archive path of the fetch, and only if there is no checksum
\* or the body's digest matches it
CacheWrittenOnlyVerified ==
    cache' # cache =>
        /\ chunks = body
        /\ ~Truthy(sha256) \/ DigestMatches(chunks, sha256)
        /\ cache' = [cache EXCEPT ![archiveFile(archiveFileName)] = File(chunks)]

DownloadFailed ==
    FetchReturned /\ ~lastResult.success /\ lastResult.error \in {"network", "http", "checksum"}

\* a fetch that failed with a refused or broken download or a checksum
\* mismatch left every file of the cache as it was before the fetch
FailedDownloadKeepsCache == DownloadFailed => cache = priorCache

\* C29: the archive file in the download cache is written only with a
\* completely downloaded body that matches the checksum, or when no checksum
\* was supplied; after a failed HTTP response, an interrupted download or a
\* failed verification the cache holds exactly what it held before.
C29_CacheWrittenOnlyAfterVerification ==
    []FailedDownloadKeepsCache /\ [][CacheWrittenOnlyVerified]_vars

\* an archive cached earlier does not match the checksum, the download
\* delivers bytes that do not match either, and the cached archive is still
\* the old one
C29_Witness ==
    /\ DownloadFailed
    /\ lastResult.error = "checksum"
    /\ priorCache[archiveFile(archiveFileName)].exists
    /\ chunks # priorCache[archiveFile(archiveFileName)].bytes
    /\ cache = priorCache

\* ------------------------------------------------------------ C30
\* a call that named a registry URL has returned
RegistryCallReturned ==
    scenario = "index" /\ gp.outcome = "returned" /\ gp.options.registryUrl # ""

\* C30: the index a call with a registry URL returns is data served by that
\* URL or the empty default.
C30_IndexOriginatesFromNamedRegistry ==
    RegistryCallReturned =>
        \/ gp.value = EmptyPackages
        \/ gp.value \in {IndexData(gp.options.registryUrl, r) : r \in Revisions}

====
